---- MODULE Spec2Model ----
(***************************************************************************)
(* Ground/tilted frame transformations (ctapipe/coordinates/               *)
(* ground_frames.py) and the two Hillas parametrisations                   *)
(* (ctapipe/reco/hillas.py).                                               *)
(*                                                                         *)
(* Numbers.  The code computes in float64.  The model computes exactly:    *)
(* a finite number is p + q*sqrt(n) with p, q rational and n a square-free *)
(* integer (every finite value the code uses in further arithmetic has     *)
(* this shape, because it takes the square root of one rational and then   *)
(* only adds, multiplies and divides), and the IEEE specials nan and +-inf *)
(* are kept,                                                               *)
(* with numpy's rules for them (x/0 is +-inf or nan, never an exception).  *)
(* Rounding and the sign of zero are not modelled.                         *)
(***************************************************************************)
EXTENDS Integers, Sequences, FiniteSets, TLC

\* ------------------------------------------------------------------------
\* Bounds of the model
\* ------------------------------------------------------------------------
MaxCoord == 1

MaxInt == 2

MaxShift == 1

\* ------------------------------------------------------------------------
\* Exact rationals <<num, den>>, den > 0, in lowest terms
\* ------------------------------------------------------------------------
IAbs(i) == IF i < 0 THEN -i ELSE i

ISgn(i) == IF i < 0 THEN -1 ELSE IF i > 0 THEN 1 ELSE 0

RECURSIVE GCD(_, _)
GCD(a, b) == IF b = 0 THEN a ELSE GCD(b, a % b)

RECURSIVE ISqrt(_)
ISqrt(i) ==
    IF i < 2 THEN i
    ELSE IF (2 * ISqrt(i \div 4) + 1) * (2 * ISqrt(i \div 4) + 1) <= i
         THEN 2 * ISqrt(i \div 4) + 1
         ELSE 2 * ISqrt(i \div 4)

\* the largest j with j * j dividing i (i > 0), where i has no prime factor
\* below k: the factors k are divided out while k^3 <= i, and what is left
\* is 1, a prime, the square of a prime or a product of two primes
RECURSIVE SquarePartFrom(_, _)
SquarePartFrom(i, k) ==
    IF k * k > i \div k
    THEN (IF ISqrt(i) * ISqrt(i) = i THEN ISqrt(i) ELSE 1)
    ELSE IF i % (k * k) = 0 THEN k * SquarePartFrom(i \div (k * k), k)
    ELSE IF i % k = 0 THEN SquarePartFrom(i \div k, k + 1)
    ELSE SquarePartFrom(i, k + 1)

SquarePart(i) == SquarePartFrom(i, 2)

Rat(a, b) ==
    LET g == GCD(IAbs(a), IAbs(b))
        s == ISgn(b)
    IN  <<(s * a) \div g, (s * b) \div g>>

R0 == <<0, 1>>

R1 == <<1, 1>>

RInt(i) == <<i, 1>>

\* sums and products cancel common factors first, to keep the integers small
RAdd(a, b) ==
    LET g == GCD(a[2], b[2])
    IN  Rat(a[1] * (b[2] \div g) + b[1] * (a[2] \div g), (a[2] \div g) * b[2])

RNeg(a) == <<-a[1], a[2]>>

RSub(a, b) == RAdd(a, RNeg(b))

RMul(a, b) ==
    LET g == GCD(IAbs(a[1]), b[2])
        h == GCD(IAbs(b[1]), a[2])
    IN  <<(a[1] \div g) * (b[1] \div h), (a[2] \div h) * (b[2] \div g)>>

RInv(a) == Rat(a[2], a[1])

RDiv(a, b) == RMul(a, RInv(b))

RSgn(a) == ISgn(a[1])

RCmp(a, b) ==
    LET g == GCD(a[2], b[2])
    IN  ISgn(a[1] * (b[2] \div g) - b[1] * (a[2] \div g))

\* sqrt(a) = RSqrtCoef(a) * sqrt(RSqrtRadicand(a)) for a rational a > 0, where
\* the radicand is a square-free integer (1 when a is a square)
RSqrtRadicand(a) ==
    (a[1] \div (SquarePart(a[1]) * SquarePart(a[1])))
        * (a[2] \div (SquarePart(a[2]) * SquarePart(a[2])))

RSqrtCoef(a) ==
    Rat(SquarePart(a[1]) * SquarePart(a[2]), a[2])

\* ------------------------------------------------------------------------
\* float64 values: fin (p + q*sqrt(n)), nan, inf (sign in p), and root
\* (the non-negative square root of p + q*sqrt(n), q # 0, a returned value
\* on which no further arithmetic is done except squaring).
\* ------------------------------------------------------------------------
Fin(p, q, n) == [k |-> "fin", p |-> p, q |-> q, n |-> IF q = R0 THEN 0 ELSE n]

NaN == [k |-> "nan", p |-> R0, q |-> R0, n |-> 0]

Inf(s) == [k |-> "inf", p |-> RInt(s), q |-> R0, n |-> 0]

FR(r) == Fin(r, R0, 0)

FI(i) == FR(RInt(i))

IsNaN(x) == x.k = "nan"

IsFinite(x) == x.k \in {"fin", "root"}

\* radicand of the field two finite operands live in
Field(x, y) == IF x.q # R0 THEN x.n ELSE y.n

\* sign of a/b - sqrt(n) for integers a >= 0, b > 0, n >= 1, without squaring
\* a or b: with k = a \div b and r = a % b, the integer parts decide unless
\* k = floor(sqrt(n)), and then a/b - sqrt(n) = r/b - (n - k*k)/(sqrt(n) + k)
\* has the sign of sqrt(n) - ((n - k*k)*b - r*k)/r
RECURSIVE CmpSqrt(_, _, _)
CmpSqrt(a, b, n) ==
    IF (a \div b) > n THEN 1
    ELSE IF (a \div b) * (a \div b) > n THEN 1
    ELSE IF ((a \div b) + 1) * ((a \div b) + 1) <= n THEN -1
    ELSE IF a % b = 0 THEN (IF (a \div b) * (a \div b) = n THEN 0 ELSE -1)
    ELSE IF (n - (a \div b) * (a \div b)) * b - (a % b) * (a \div b) <= 0 THEN 1
    ELSE -CmpSqrt((n - (a \div b) * (a \div b)) * b - (a % b) * (a \div b), a % b, n)

\* sign of p + q*sqrt(n): when p and q differ in sign, |p/q| against sqrt(n)
SurdSgn(p, q, n) ==
    IF RSgn(q) = 0 THEN RSgn(p)
    ELSE IF RSgn(p) = 0 \/ RSgn(p) = RSgn(q) THEN RSgn(q)
    ELSE RSgn(p) * CmpSqrt(IAbs(RDiv(p, q)[1]), RDiv(p, q)[2], n)

\* sign of a value (nan has none: 0 is returned, callers test IsNaN first)
FSgn(x) ==
    CASE x.k = "fin"  -> SurdSgn(x.p, x.q, x.n)
      [] x.k = "inf"  -> RSgn(x.p)
      [] x.k = "root" -> 1
      [] OTHER        -> 0

FNeg(x) ==
    CASE x.k = "fin" -> Fin(RNeg(x.p), RNeg(x.q), x.n)
      [] x.k = "inf" -> Inf(-RSgn(x.p))
      [] OTHER       -> NaN

FAdd(x, y) ==
    CASE x.k = "fin" /\ y.k = "fin" ->
             Fin(RAdd(x.p, y.p), RAdd(x.q, y.q), Field(x, y))
      [] x.k = "inf" /\ y.k = "fin" -> x
      [] x.k = "fin" /\ y.k = "inf" -> y
      [] x.k = "inf" /\ y.k = "inf" -> IF x.p = y.p THEN x ELSE NaN
      [] OTHER -> NaN

FSub(x, y) == FAdd(x, FNeg(y))

FMul(x, y) ==
    CASE x.k = "fin" /\ y.k = "fin" ->
             LET n == Field(x, y)
             IN  Fin(RAdd(RMul(x.p, y.p), RMul(RMul(x.q, y.q), RInt(n))),
                     RAdd(RMul(x.p, y.q), RMul(x.q, y.p)), n)
      [] x.k \in {"fin", "inf"} /\ y.k \in {"fin", "inf"} ->
             IF FSgn(x) * FSgn(y) = 0 THEN NaN ELSE Inf(FSgn(x) * FSgn(y))
      [] OTHER -> NaN

\* 1 / (p + q*sqrt(n)) for a non-zero finite value:
\* (t - sqrt(n)) / (q * (t^2 - n)) with t = p/q
SurdInvOf(t, q, n) ==
    Fin(RDiv(t, RMul(q, RSub(RMul(t, t), RInt(n)))),
        RNeg(RInv(RMul(q, RSub(RMul(t, t), RInt(n))))), n)

SurdInv(x) == IF x.q = R0 THEN FR(RInv(x.p)) ELSE SurdInvOf(RDiv(x.p, x.q), x.q, x.n)

FDiv(x, y) ==
    CASE x.k = "fin" /\ y.k = "fin" ->
             IF FSgn(y) # 0 THEN FMul(x, SurdInv(y))
             ELSE IF FSgn(x) = 0 THEN NaN ELSE Inf(FSgn(x))
      [] x.k = "inf" /\ y.k = "fin" ->
             IF FSgn(y) = 0 THEN x ELSE Inf(FSgn(x) * FSgn(y))
      [] x.k = "fin" /\ y.k = "inf" -> FI(0)
      [] OTHER -> NaN

\* np.sqrt: nan for a negative or nan argument
FSqrt(x) ==
    CASE x.k = "fin" ->
             IF FSgn(x) < 0 THEN NaN
             ELSE IF FSgn(x) = 0 THEN FI(0)
             ELSE IF x.q # R0 THEN [k |-> "root", p |-> x.p, q |-> x.q, n |-> x.n]
             ELSE IF RSqrtRadicand(x.p) = 1 THEN FR(RSqrtCoef(x.p))
             ELSE Fin(R0, RSqrtCoef(x.p), RSqrtRadicand(x.p))
      [] x.k = "inf" -> IF FSgn(x) > 0 THEN x ELSE NaN
      [] OTHER -> NaN

FAbs(x) == IF x.k \in {"fin", "inf"} /\ FSgn(x) < 0 THEN FNeg(x) ELSE x

\* the square of a value, also of a root
Sq(x) == IF x.k = "root" THEN Fin(x.p, x.q, x.n) ELSE FMul(x, x)

\* equality of two finite values as real numbers: the form p + q*sqrt(n)
\* with n square-free is unique
RealEq(x, y) == x.k = "fin" /\ y.k = "fin" /\ x = y

\* x <= y for two finite values of one field
RealLe(x, y) == x.k = "fin" /\ y.k = "fin" /\ FSgn(FSub(y, x)) >= 0

\* equality of two non-negative finite values (fin or root)
NonNegEq(x, y) == IsFinite(x) /\ IsFinite(y) /\ RealEq(Sq(x), Sq(y))

\* ------------------------------------------------------------------------
\* Angles.  An angle is given by its (sin, cos), a rational point of the
\* unit circle, so that numpy's sin and cos are exact.
\* ------------------------------------------------------------------------
Angle(sn, sd, cn, cd) == [sin |-> Rat(sn, sd), cos |-> Rat(cn, cd)]

\* 0, 90, 180, 270 degrees and four oblique angles
Azimuths ==
    { Angle(0, 1, 1, 1), Angle(1, 1, 0, 1), Angle(0, 1, -1, 1), Angle(-1, 1, 0, 1),
      Angle(3, 5, 4, 5), Angle(4, 5, -3, 5), Angle(-5, 13, -12, 13),
      Angle(-4, 5, 3, 5) }

\* 0 (horizontal), 90 (vertical) degrees and oblique altitudes
Altitudes ==
    { Angle(0, 1, 1, 1), Angle(1, 1, 0, 1), Angle(3, 5, 4, 5), Angle(4, 5, 3, 5),
      Angle(12, 13, 5, 13) }

sin(a) == FR(a.sin)

cos(a) == FR(a.cos)

Coords == (-MaxCoord) .. MaxCoord

\* ------------------------------------------------------------------------
\* ground_frames.py
\* ------------------------------------------------------------------------
\* get_shower_trans_matrix with the sign of trans[0][1] lost
get_shower_trans_matrix_sign(azimuth, altitude) ==
    << << FMul(sin(altitude), cos(azimuth)), FMul(sin(altitude), sin(azimuth)),
          FNeg(cos(altitude)) >>,
       << sin(azimuth), cos(azimuth), FI(0) >>,
       << FMul(cos(altitude), cos(azimuth)), FMul(FNeg(cos(altitude)), sin(azimuth)),
          sin(altitude) >> >>

\* get_shower_trans_matrix with cos_z = cos(altitude), sin_z = sin(altitude)
get_shower_trans_matrix_zenith(azimuth, altitude) ==
    << << FMul(cos(altitude), cos(azimuth)), FMul(FNeg(cos(altitude)), sin(azimuth)),
          FNeg(sin(altitude)) >>,
       << sin(azimuth), cos(azimuth), FI(0) >>,
       << FMul(sin(altitude), cos(azimuth)), FMul(FNeg(sin(altitude)), sin(azimuth)),
          cos(altitude) >> >>

\* trans[i][j] of the code is trans[i + 1][j + 1] here
get_shower_trans_matrix(azimuth, altitude) ==
    LET cos_z  == sin(altitude)
        sin_z  == cos(altitude)
        cos_az == cos(azimuth)
        sin_az == sin(azimuth)
    IN  << << FMul(cos_z, cos_az), FMul(FNeg(cos_z), sin_az), FNeg(sin_z) >>,
           << sin_az,              cos_az,                    FI(0)       >>,
           << FMul(sin_z, cos_az), FMul(FNeg(sin_z), sin_az), cos_z       >> >>

Zeros3 == << <<FI(0), FI(0), FI(0)>>, <<FI(0), FI(0), FI(0)>>, <<FI(0), FI(0), FI(0)>> >>

GroundFrame(x, y, z) == [frame |-> "ground", x |-> x, y |-> y, z |-> z]

\* a PlanarRepresentation has no z; the field is kept 0
TiltedGroundFrame(x, y) == [frame |-> "tilted", x |-> x, y |-> y, z |-> FI(0)]

\* The bodies below take the values the code binds to local names (trans,
\* ground_system) as parameters; the operators named as in the code bind them.
ground_to_tilted_apply(x_grd, y_grd, z_grd, trans) ==
    TiltedGroundFrame(
        FAdd(FAdd(FMul(trans[1][1], x_grd), FMul(trans[1][2], y_grd)),
             FMul(trans[1][3], z_grd)),
        FAdd(FAdd(FMul(trans[2][1], x_grd), FMul(trans[2][2], y_grd)),
             FMul(trans[2][3], z_grd)))

ground_to_tilted(ground_coord, pointing_direction) ==
    ground_to_tilted_apply(
        ground_coord.x, ground_coord.y, ground_coord.z,
        get_shower_trans_matrix(pointing_direction.az, pointing_direction.alt))

\* tilted_to_ground with the matrix not transposed
tilted_to_ground_apply_rows(x_tilt, y_tilt, trans) ==
    GroundFrame(
        FAdd(FMul(trans[1][1], x_tilt), FMul(trans[1][2], y_tilt)),
        FAdd(FMul(trans[2][1], x_tilt), FMul(trans[2][2], y_tilt)),
        FAdd(FMul(trans[3][1], x_tilt), FMul(trans[3][2], y_tilt)))

tilted_to_ground_apply(x_tilt, y_tilt, trans) ==
    GroundFrame(
        FAdd(FMul(trans[1][1], x_tilt), FMul(trans[2][1], y_tilt)),
        FAdd(FMul(trans[1][2], x_tilt), FMul(trans[2][2], y_tilt)),
        FAdd(FMul(trans[1][3], x_tilt), FMul(trans[2][3], y_tilt)))

tilted_to_ground(tilted_coord, pointing_direction) ==
    tilted_to_ground_apply(
        tilted_coord.x, tilted_coord.y,
        get_shower_trans_matrix(pointing_direction.az, pointing_direction.alt))

project_to_ground_apply(ground_system, trans) ==
    GroundFrame(
        FSub(ground_system.x, FDiv(FMul(trans[3][1], ground_system.z), trans[3][3])),
        FSub(ground_system.y, FDiv(FMul(trans[3][2], ground_system.z), trans[3][3])),
        FI(0))

project_to_ground(tilt_system, pointing_direction) ==
    project_to_ground_apply(
        tilted_to_ground(tilt_system, pointing_direction),
        get_shower_trans_matrix(pointing_direction.az, pointing_direction.alt))

\* ------------------------------------------------------------------------
\* numpy arrays (one-dimensional), as sequences of float64 values
\* ------------------------------------------------------------------------
asanyarray(a) == [i \in 1 .. Len(a) |-> FI(a[i])]

shape(a) == Len(a)

ArrMul(a, b) == [i \in 1 .. Len(a) |-> FMul(a[i], b[i])]

RECURSIVE ArrSumTo(_, _)
ArrSumTo(a, i) == IF i = 0 THEN FI(0) ELSE FAdd(ArrSumTo(a, i - 1), a[i])

\* np.sum
ArrSum(a) == ArrSumTo(a, Len(a))

\* ------------------------------------------------------------------------
\* Angles returned by arctan2 and arcsin
\* ------------------------------------------------------------------------
\* quarter * pi/2 + atan2(y, x); the direction (y, x) is scaled to x = +-1,
\* or to y = +-1 when x = 0, and atan2(0, 0) = atan2(0, 1) = 0
AngNaN == [k |-> "nan", quarter |-> 0, y |-> FI(0), x |-> FI(0)]

Ang(quarter, y, x) == [k |-> "ang", quarter |-> quarter, y |-> y, x |-> x]

arctan2(y, x) ==
    CASE IsNaN(y) \/ IsNaN(x) -> AngNaN
      [] y.k = "inf" /\ x.k = "inf" -> Ang(0, FI(FSgn(y)), FI(FSgn(x)))
      [] y.k = "inf" -> Ang(0, FI(FSgn(y)), FI(0))
      [] x.k = "inf" -> Ang(0, FI(0), FI(FSgn(x)))
      [] OTHER ->
           IF FSgn(x) # 0 THEN Ang(0, FDiv(y, FAbs(x)), FI(FSgn(x)))
           ELSE IF FSgn(y) # 0 THEN Ang(0, FI(FSgn(y)), FI(0))
           ELSE Ang(0, FI(0), FI(1))

\* np.pi/2.0 + angle
AddHalfPi(a) == IF a.k = "nan" THEN a ELSE Ang(a.quarter + 1, a.y, a.x)

\* the quotient of two non-negative values, either of which may be a root
DivNonNeg(x, y) ==
    IF IsFinite(x) /\ IsFinite(y) THEN FSqrt(FDiv(Sq(x), Sq(y))) ELSE FDiv(x, y)

\* np.arcsin: nan outside [-1, 1]; the angle is kept as its sine
arcsin(v) ==
    IF IsFinite(v) /\ FSgn(FSub(FI(1), Sq(v))) >= 0
    THEN [k |-> "asin", v |-> v]
    ELSE [k |-> "nan", v |-> NaN]

\* ------------------------------------------------------------------------
\* hillas.py: hillas_parameters (linear-fit formulation)
\* Each operator below is a block of the function's body; the values the
\* code binds to local names are its parameters.
\* ------------------------------------------------------------------------
Returned(p) == [status |-> "ok", p |-> p]

Raised(exc) == [status |-> exc, p |-> <<>>]

NotCalled == [status |-> "none", p |-> <<>>]

\* lines 44-49: image moments
hillas_moments(x, y, s, sum_s) ==
    [ m_x  |-> FDiv(ArrSum(ArrMul(s, x)), sum_s),
      m_y  |-> FDiv(ArrSum(ArrMul(s, y)), sum_s),
      m_xx |-> FDiv(ArrSum(ArrMul(ArrMul(s, x), x)), sum_s),
      m_yy |-> FDiv(ArrSum(ArrMul(ArrMul(s, y), y)), sum_s),
      m_xy |-> FDiv(ArrSum(ArrMul(ArrMul(s, x), y)), sum_s) ]

\* lines 52-54
hillas_S(m) ==
    [ S_xx |-> FSub(m.m_xx, FMul(m.m_x, m.m_x)),
      S_yy |-> FSub(m.m_yy, FMul(m.m_y, m.m_y)),
      S_xy |-> FSub(m.m_xy, FMul(m.m_x, m.m_y)) ]

\* lines 55-57: slope of the major axis y = a * x + b
hillas_a(d, S_xy) ==
    FDiv(FAdd(d, FSqrt(FAdd(FMul(d, d), FMul(FMul(FI(4), S_xy), S_xy)))),
         FMul(FI(2), S_xy))

\* line 58
hillas_b(m, a) == FSub(m.m_y, FMul(a, m.m_x))

\* line 61
width_2(S, a) ==
    FDiv(FSub(FAdd(S.S_yy, FMul(FMul(a, a), S.S_xx)), FMul(FMul(FI(2), a), S.S_xy)),
         FAdd(FI(1), FMul(a, a)))

\* line 63
length_2(S, a) ==
    FDiv(FAdd(FAdd(S.S_xx, FMul(FMul(a, a), S.S_yy)), FMul(FMul(FI(2), a), S.S_xy)),
         FAdd(FI(1), FMul(a, a)))

\* line 65
hillas_miss(a, b) == FAbs(FDiv(b, FAdd(FI(1), FMul(a, a))))

\* line 66
hillas_r(m) == FSqrt(FAdd(FMul(m.m_x, m.m_x), FMul(m.m_y, m.m_y)))

\* line 71
hillas_q(x, y, m, sin_theta, cos_theta) ==
    [i \in 1 .. Len(x) |->
        FAdd(FMul(FSub(m.m_x, x[i]), sin_theta), FMul(FSub(y[i], m.m_y), cos_theta))]

\* lines 72-74
azwidth_2(m_q, m_qq) == FSub(m_qq, FMul(m_q, m_q))

\* lines 78-88
hillas_dict(m, S, a, b, r, azw_2) ==
    Returned([ x       |-> m.m_x,
               y       |-> m.m_y,
               a       |-> a,
               b       |-> b,
               width   |-> FSqrt(width_2(S, a)),
               length  |-> FSqrt(length_2(S, a)),
               miss    |-> hillas_miss(a, b),
               r       |-> r,
               azwidth |-> FSqrt(azw_2) ])

hillas_azwidth(s, sum_s, m, S, a, r, q) ==
    hillas_dict(m, S, a, hillas_b(m, a), r,
                azwidth_2(FDiv(ArrSum(ArrMul(s, q)), sum_s),
                          FDiv(ArrSum(ArrMul(ArrMul(s, q), q)), sum_s)))

hillas_fit(x, y, s, sum_s, m, S, r) ==
    hillas_azwidth(s, sum_s, m, S, hillas_a(FSub(S.S_yy, S.S_xx), S.S_xy), r,
                   hillas_q(x, y, m, FDiv(m.m_y, r), FDiv(m.m_x, r)))

hillas_central(x, y, s, sum_s, m) ==
    hillas_fit(x, y, s, sum_s, m, hillas_S(m), hillas_r(m))

hillas_body(x, y, s, sum_s) ==
    hillas_central(x, y, s, sum_s, hillas_moments(x, y, s, sum_s))

\* lines 37-41: the conversions and the two assertions, then the body
hillas_parameters(x, y, s) ==
    IF shape(asanyarray(x)) # shape(asanyarray(s)) THEN Raised("AssertionError")
    ELSE IF shape(asanyarray(y)) # shape(asanyarray(s)) THEN Raised("AssertionError")
    ELSE hillas_body(asanyarray(x), asanyarray(y), asanyarray(s), ArrSum(asanyarray(s)))

\* ------------------------------------------------------------------------
\* hillas.py: hillas_parameters_2 (moment formulation)
\* ------------------------------------------------------------------------
\* lines 105-111: moms[i] of the code is moms[i + 1] here
hillas2_moms(pix_x, pix_y, image, size) ==
    << FDiv(ArrSum(ArrMul(pix_x, image)), size),
       FDiv(ArrSum(ArrMul(pix_y, image)), size),
       FDiv(ArrSum(ArrMul(ArrMul(pix_x, pix_x), image)), size),
       FDiv(ArrSum(ArrMul(ArrMul(pix_y, pix_y), image)), size),
       FDiv(ArrSum(ArrMul(ArrMul(pix_x, pix_y), image)), size) >>

\* the variances with the squared means not subtracted
hillas2_variances_raw(moms) ==
    [ vx2 |-> moms[3], vy2 |-> moms[4], vxy |-> moms[5] ]

\* lines 115-117
hillas2_variances(moms) ==
    [ vx2 |-> FSub(moms[3], FMul(moms[1], moms[1])),
      vy2 |-> FSub(moms[4], FMul(moms[2], moms[2])),
      vxy |-> FSub(moms[5], FMul(moms[1], moms[2])) ]

\* zz with vxy not squared
hillas2_zz_linear(dd, vxy) == FSqrt(FAdd(FMul(dd, dd), FMul(FI(4), vxy)))

\* line 122
hillas2_zz(dd, vxy) == FSqrt(FAdd(FMul(dd, dd), FMul(FMul(FI(4), vxy), vxy)))

\* lines 126-129; vv = 2.0 - uu
hillas2_miss(moms, vxy, zz, uu) ==
    FSqrt(FSub(FDiv(FAdd(FMul(uu, FMul(moms[1], moms[1])),
                         FMul(FSub(FI(2), uu), FMul(moms[2], moms[2]))),
                    FI(2)),
               FDiv(FMul(FMul(FMul(moms[1], moms[2]), FI(2)), vxy), zz)))

\* lines 140-142
hillas2_psi(moms, vxy, dd, zz) ==
    AddHalfPi(arctan2(FAdd(FMul(FAdd(dd, zz), moms[2]), FMul(FMul(FI(2), vxy), moms[1])),
                      FSub(FMul(FMul(FI(2), vxy), moms[2]), FMul(FSub(dd, zz), moms[1]))))

\* lines 133-148; miss is a local of the code that the dict does not hold:
\* it is kept here because alpha is made of it
hillas2_dict(size, moms, v, dd, zz, miss, distance) ==
    Returned([ size     |-> size,
               cx       |-> moms[1],
               cy       |-> moms[2],
               length   |-> FSqrt(FAdd(FAdd(v.vx2, v.vy2), zz)),
               width    |-> FSqrt(FSub(FAdd(v.vx2, v.vy2), zz)),
               distance |-> distance,
               azwidth  |-> FSqrt(FSub(FAdd(moms[3], moms[4]), zz)),
               psi      |-> hillas2_psi(moms, v.vxy, dd, zz),
               phi      |-> arctan2(moms[2], moms[1]),
               alpha    |-> arcsin(DivNonNeg(miss, distance)),
               miss     |-> miss ])

hillas2_params(size, moms, v, dd, zz) ==
    hillas2_dict(size, moms, v, dd, zz,
                 hillas2_miss(moms, v.vxy, zz, FAdd(FI(1), FDiv(dd, zz))),
                 FSqrt(FAdd(FMul(moms[1], moms[1]), FMul(moms[2], moms[2]))))

hillas2_common(size, moms, v, dd) ==
    hillas2_params(size, moms, v, dd, hillas2_zz(dd, v.vxy))

hillas2_central(size, moms, v) ==
    hillas2_common(size, moms, v, FSub(v.vy2, v.vx2))

hillas2_moments(size, moms) == hillas2_central(size, moms, hillas2_variances(moms))

hillas2_body(pix_x, pix_y, image, size) ==
    hillas2_moments(size, hillas2_moms(pix_x, pix_y, image, size))

\* hillas_parameters_2 without the assertion on pix_y: numpy then refuses the
\* product of the two arrays
hillas_parameters_2_noassert(pix_x, pix_y, image) ==
    IF shape(asanyarray(pix_x)) # shape(asanyarray(image)) THEN Raised("AssertionError")
    ELSE IF shape(asanyarray(pix_y)) # shape(asanyarray(image)) THEN Raised("ValueError")
    ELSE hillas2_body(asanyarray(pix_x), asanyarray(pix_y), asanyarray(image),
                      ArrSum(asanyarray(image)))

\* lines 93-97: the conversions and the two assertions, then the body
hillas_parameters_2(pix_x, pix_y, image) ==
    IF shape(asanyarray(pix_x)) # shape(asanyarray(image)) THEN Raised("AssertionError")
    ELSE IF shape(asanyarray(pix_y)) # shape(asanyarray(image)) THEN Raised("AssertionError")
    ELSE hillas2_body(asanyarray(pix_x), asanyarray(pix_y), asanyarray(image),
                      ArrSum(asanyarray(image)))

\* ------------------------------------------------------------------------
\* State
\* ------------------------------------------------------------------------
VARIABLES
    pointing,   \* pointing_direction of the tilted frame: [az, alt]
    coord,      \* the coordinate object at hand
    prev,       \* the coordinate the last operation was applied to
    prev2,      \* the coordinate the operation before that was applied to
    last,       \* the last operation
    last2,      \* the operation before it
    trans,      \* the matrix get_shower_trans_matrix returned last
    x,          \* pixel x-coordinates handed to the Hillas functions
    y,          \* pixel y-coordinates
    s,          \* pixel values (the image)
    res1,       \* outcome of hillas_parameters(x, y, s)
    res2,       \* outcome of hillas_parameters_2(x, y, s)
    shift,      \* the offset by which the caller has translated the pixels
    ref1,       \* outcome of hillas_parameters before the translation
    ref2        \* outcome of hillas_parameters_2 before the translation

fvars == <<pointing, coord, prev, prev2, last, last2, trans>>

hvars == <<x, y, s, res1, res2, shift, ref1, ref2>>

vars == <<fvars, hvars>>

\* ------------------------------------------------------------------------
\* The frame transformations
\* ------------------------------------------------------------------------
NoImage ==
    /\ x = <<>> /\ y = <<>> /\ s = <<>>
    /\ res1 = NotCalled /\ res2 = NotCalled
    /\ shift = <<0, 0>>
    /\ ref1 = NotCalled /\ ref2 = NotCalled

InitFrames ==
    /\ pointing \in [az : Azimuths, alt : Altitudes]
    /\ coord \in { GroundFrame(FI(gx), FI(gy), FI(gz)) :
                       gx \in Coords, gy \in Coords, gz \in Coords }
                    \cup { TiltedGroundFrame(FI(tx), FI(ty)) : tx \in Coords, ty \in Coords }
    /\ prev = coord
    /\ prev2 = coord
    /\ last = "none"
    /\ last2 = "none"
    /\ trans = Zeros3
    /\ NoImage

Step(op, result) ==
    /\ coord' = result
    /\ prev' = coord
    /\ prev2' = prev
    /\ last' = op
    /\ last2' = last
    /\ trans' = get_shower_trans_matrix(pointing.az, pointing.alt)
    /\ UNCHANGED <<pointing, hvars>>

GetShowerTransMatrix ==
    /\ last = "none"
    /\ Step("get_shower_trans_matrix", coord)

GroundToTilted ==
    /\ coord.frame = "ground"
    /\ Step("ground_to_tilted", ground_to_tilted(coord, pointing))

TiltedToGround ==
    /\ coord.frame = "tilted"
    /\ Step("tilted_to_ground", tilted_to_ground(coord, pointing))

ProjectToGround ==
    /\ coord.frame = "tilted"
    /\ Step("project_to_ground", project_to_ground(coord, pointing))

NextFrames == GetShowerTransMatrix \/ GroundToTilted \/ TiltedToGround \/ ProjectToGround

SpecFrames == InitFrames /\ [][NextFrames]_vars

\* ------------------------------------------------------------------------
\* The Hillas functions and their caller
\* ------------------------------------------------------------------------
\* camera geometries: the pixel positions <<x, y>>
Geometries ==
    { << <<1, 0>>, <<-1, 0>>, <<0, 1>>, <<0, -1>> >>,
      << <<0, 0>>, <<1, 0>>, <<2, 0>> >>,
      << <<0, 0>>, <<1, 0>>, <<0, 1>>, <<1, 1>> >>,
      << <<0, 0>>, <<2, 1>>, <<1, 2>>, <<-1, 1>> >> }

\* images of n pixels: every image with values up to MaxInt, and the bright
\* first pixel of the elongated-image scenario
Images(n) == [1 .. n -> 0 .. MaxInt] \cup { [i \in 1 .. n |-> IF i = 1 THEN 10 ELSE 1] }

\* the caller may hand over an array that is one element short
Cut(a, yes) == IF yes THEN SubSeq(a, 1, Len(a) - 1) ELSE a

NoFrames ==
    /\ pointing = [az |-> Angle(0, 1, 1, 1), alt |-> Angle(1, 1, 0, 1)]
    /\ coord = TiltedGroundFrame(FI(0), FI(0))
    /\ prev = coord
    /\ prev2 = coord
    /\ last = "none"
    /\ last2 = "none"
    /\ trans = Zeros3

InitHillas ==
    /\ \E g \in Geometries, cut \in {"none", "x", "y", "s"} :
          /\ x = Cut([i \in 1 .. Len(g) |-> g[i][1]], cut = "x")
          /\ y = Cut([i \in 1 .. Len(g) |-> g[i][2]], cut = "y")
          /\ \E image \in Images(Len(g)) : s = Cut(image, cut = "s")
    /\ res1 = NotCalled /\ res2 = NotCalled
    /\ shift = <<0, 0>>
    /\ ref1 = NotCalled /\ ref2 = NotCalled
    /\ NoFrames

HillasParameters ==
    /\ res1 = NotCalled
    /\ res1' = hillas_parameters(x, y, s)
    /\ UNCHANGED <<x, y, s, res2, shift, ref1, ref2, fvars>>

\* the caller runs the two formulations one after the other on the same arrays
HillasParameters2 ==
    /\ res1 # NotCalled
    /\ res2 = NotCalled
    /\ res2' = hillas_parameters_2(x, y, s)
    /\ UNCHANGED <<x, y, s, res1, shift, ref1, ref2, fvars>>

Shifts == { d \in (0 .. MaxShift) \X (0 .. MaxShift) : d # <<0, 0>> }

\* the caller, once both functions have returned, translates every pixel by
\* a constant and starts over
Translate(d) ==
    /\ shift = <<0, 0>>
    /\ res1.status = "ok" /\ res2.status = "ok"
    /\ x' = [i \in 1 .. Len(x) |-> x[i] + d[1]]
    /\ y' = [i \in 1 .. Len(y) |-> y[i] + d[2]]
    /\ shift' = d
    /\ ref1' = res1 /\ ref2' = res2
    /\ res1' = NotCalled /\ res2' = NotCalled
    /\ UNCHANGED <<s, fvars>>

NextHillas == HillasParameters \/ HillasParameters2 \/ (\E d \in Shifts : Translate(d))

SpecHillas == InitHillas /\ [][NextHillas]_vars

\* ========================================================================
\* Properties of the frame transformations (SpecFrames)
\* ========================================================================
Oblique(a) == a.sin # R0 /\ a.cos # R0

FiniteCoord(c) == c.x.k = "fin" /\ c.y.k = "fin" /\ c.z.k = "fin"

\* entry (i, j) of transpose(trans) * trans
RtR(i, j) ==
    FAdd(FAdd(FMul(trans[1][i], trans[1][j]), FMul(trans[2][i], trans[2][j])),
         FMul(trans[3][i], trans[3][j]))

\* the ground point p lies in the tilted plane: it is orthogonal to the
\* pointing axis, the third row of trans
InPlane(p) ==
    FAdd(FAdd(FMul(trans[3][1], p.x), FMul(trans[3][2], p.y)), FMul(trans[3][3], p.z))
        = FI(0)

\* C1: the matrix get_shower_trans_matrix returns is orthonormal, for every
\* azimuth and altitude: transpose(R) * R is the identity.
C1_Orthonormal ==
    last # "none" =>
        \A i \in 1 .. 3, j \in 1 .. 3 : RtR(i, j) = FI(IF i = j THEN 1 ELSE 0)

C1_Witness ==
    /\ last = "get_shower_trans_matrix"
    /\ Oblique(pointing.az) /\ Oblique(pointing.alt)
    /\ RtR(1, 1) = FI(1) /\ RtR(1, 2) = FI(0)

\* C2: a tilted point q satisfies ground_to_tilted(tilted_to_ground(q)) = q;
\* a ground point p satisfies tilted_to_ground(ground_to_tilted(p)) = p in all
\* three components exactly when p lies in the tilted plane.
C2_RoundTrip ==
    /\ (last2 = "tilted_to_ground" /\ last = "ground_to_tilted" /\ FiniteCoord(prev2))
          => coord = prev2
    /\ (last2 = "ground_to_tilted" /\ last = "tilted_to_ground" /\ FiniteCoord(prev2))
          => (coord = prev2 <=> InPlane(prev2))

C2_Witness ==
    /\ last2 = "ground_to_tilted" /\ last = "tilted_to_ground"
    /\ Oblique(pointing.az) /\ Oblique(pointing.alt)
    /\ FiniteCoord(prev2) /\ InPlane(prev2)
    /\ prev2.x # FI(0) /\ prev2.z # FI(0)
    /\ coord = prev2

\* the point project_to_ground has projected satisfies the formulas of the
\* spec, with (ex, ey, ez) the embedding of the tilted point
Projected(e) ==
    /\ coord.z = FI(0)
    /\ FMul(coord.x, trans[3][3]) = FSub(FMul(e.x, trans[3][3]), FMul(trans[3][1], e.z))
    /\ FMul(coord.y, trans[3][3]) = FSub(FMul(e.y, trans[3][3]), FMul(trans[3][2], e.z))
    \* the projection moves the point along the pointing axis only
    /\ ground_to_tilted(coord, pointing) = prev

\* C9 as stated: the divisor trans[2][2] is zero exactly at altitude 90
\* degrees, where the projection fails, and at every other altitude the
\* projection is the point of the formulas.
C9_Original ==
    (last = "project_to_ground" /\ FiniteCoord(prev)) =>
        /\ (trans[3][3] = FI(0)) <=> (pointing.alt.sin = R1)
        /\ pointing.alt.sin = R1 => (coord.x.k # "fin" /\ coord.y.k # "fin")
        /\ pointing.alt.sin # R1 =>
              (FiniteCoord(coord) /\ Projected(tilted_to_ground(prev, pointing)))

\* C9 (amended): the divisor trans[2][2] is sin(altitude): it is zero exactly
\* at altitude 0 (horizontal pointing), where both projected coordinates come
\* out non-finite (inf or nan); at every other altitude, 90 degrees included,
\* the projection is finite, has z = 0 and is the point of the formulas.
C9_Amended ==
    (last = "project_to_ground" /\ FiniteCoord(prev)) =>
        /\ (trans[3][3] = FI(0)) <=> (pointing.alt.sin = R0)
        /\ pointing.alt.sin = R0 => (coord.x.k # "fin" /\ coord.y.k # "fin")
        /\ pointing.alt.sin # R0 =>
              (FiniteCoord(coord) /\ Projected(tilted_to_ground(prev, pointing)))

C9_Witness ==
    /\ last = "project_to_ground"
    /\ pointing.alt.sin = R0
    /\ prev.x # FI(0)
    /\ coord.x.k = "inf"
    /\ coord.z = FI(0)

\* ========================================================================
\* Properties of the Hillas functions (SpecHillas)
\* ========================================================================
\* The moments of the arrays at hand in integers: N = sum(s), and the sums
\* of s*a*b.
RECURSIVE SumTo(_, _, _, _)
SumTo(w, a, b, i) == IF i = 0 THEN 0 ELSE SumTo(w, a, b, i - 1) + w[i] * a[i] * b[i]

One == [i \in 1 .. Len(s) |-> 1]

ShapesMatch == Len(x) = Len(s) /\ Len(y) = Len(s)

N == SumTo(s, One, One, Len(s))

Sx == SumTo(s, x, One, Len(s))

Sy == SumTo(s, y, One, Len(s))

\* N^2 times the variances and the covariance
NVx2 == N * SumTo(s, x, x, Len(s)) - Sx * Sx

NVy2 == N * SumTo(s, y, y, Len(s)) - Sy * Sy

NVxy == N * SumTo(s, x, y, Len(s)) - Sx * Sy

\* equal-length arrays, intensities >= 0 with sum > 0
Valid == ShapesMatch /\ (\A i \in 1 .. Len(s) : s[i] >= 0) /\ N > 0

Circular == NVx2 = NVy2 /\ NVxy = 0

AtOrigin == Sx = 0 /\ Sy = 0

Covariant ==
    /\ res2.p.cx = FAdd(ref2.p.cx, FI(shift[1]))
    /\ res2.p.cy = FAdd(ref2.p.cy, FI(shift[2]))
    /\ res2.p.distance =
          FSqrt(FAdd(Sq(FAdd(ref2.p.cx, FI(shift[1]))), Sq(FAdd(ref2.p.cy, FI(shift[2])))))
    /\ res2.p.phi = arctan2(FAdd(ref2.p.cy, FI(shift[2])), FAdd(ref2.p.cx, FI(shift[1])))

Translated == shift # <<0, 0>> /\ Valid /\ res2.status = "ok" /\ ref2.status = "ok"

\* C4 as stated: a translation of all pixels leaves width, length, miss and
\* azwidth unchanged and moves the centroid, distance and phi with it.
C4_Original ==
    Translated =>
        /\ res2.p.width = ref2.p.width /\ res2.p.length = ref2.p.length
        /\ res2.p.miss = ref2.p.miss /\ res2.p.azwidth = ref2.p.azwidth
        /\ Covariant

\* C4 (amended): a translation of all pixels leaves width and length
\* unchanged (in both formulations) and moves the centroid by exactly the
\* offset, distance and phi becoming those of the moved centroid; miss and
\* azwidth, which are measured from the origin, change in general.
C4_Amended ==
    Translated =>
        /\ res2.p.width = ref2.p.width /\ res2.p.length = ref2.p.length
        /\ res1.p.width = ref1.p.width /\ res1.p.length = ref1.p.length
        /\ res1.p.x = FAdd(ref1.p.x, FI(shift[1]))
        /\ res1.p.y = FAdd(ref1.p.y, FI(shift[2]))
        /\ Covariant

C4_Witness ==
    /\ Translated /\ NVxy # 0
    /\ res2.p.width = ref2.p.width /\ IsFinite(res2.p.width)
    /\ res2.p.cx # ref2.p.cx
    /\ res2.p.miss # ref2.p.miss
    /\ res2.p.azwidth # ref2.p.azwidth

\* C5: on a well-conditioned image (sum > 0, vxy # 0, centroid not at the
\* origin) hillas_parameters and hillas_parameters_2 return the same centroid,
\* distance, width, length, miss and azwidth.
C5_Equivalent ==
    (res1.status = "ok" /\ res2.status = "ok" /\ Valid /\ NVxy # 0 /\ ~AtOrigin) =>
        /\ res1.p.x = res2.p.cx /\ res1.p.y = res2.p.cy
        /\ NonNegEq(res1.p.r, res2.p.distance)
        /\ NonNegEq(res1.p.width, res2.p.width)
        /\ NonNegEq(res1.p.length, res2.p.length)
        /\ NonNegEq(res1.p.miss, res2.p.miss)
        /\ NonNegEq(res1.p.azwidth, res2.p.azwidth)

\* C6: an image whose intensities sum to 0 makes both functions end in an
\* error; neither returns a record.
C6_ZeroRejected ==
    (ShapesMatch /\ N = 0) => (res1.status # "ok" /\ res2.status # "ok")

\* some field of the record hillas_parameters returns is nan
Flagged1 ==
    \/ IsNaN(res1.p.a) \/ IsNaN(res1.p.b) \/ IsNaN(res1.p.width)
    \/ IsNaN(res1.p.length) \/ IsNaN(res1.p.miss)

\* C7: degenerate geometry is flagged: a circular image gives width = length
\* and a nan (or an error) for psi and for alpha, in particular the four unit
\* pixels (1,0), (-1,0), (0,1), (0,-1) give size 4, centroid (0,0), width =
\* length = 1, distance 0; a centroid at the origin gives a nan alpha; vxy = 0
\* gives a flagged result of hillas_parameters.
C7_DegenerateFlagged ==
    /\ (res2.status = "ok" /\ Valid /\ Circular) =>
          /\ NonNegEq(res2.p.width, res2.p.length)
          /\ res2.p.psi.k = "nan"
          /\ res2.p.alpha.k = "nan"
    /\ (res2.status = "ok" /\ Valid /\ AtOrigin) => res2.p.alpha.k = "nan"
    /\ (res2.status = "ok" /\ x = <<1, -1, 0, 0>> /\ y = <<0, 0, 1, -1>> /\ s = <<1, 1, 1, 1>>) =>
          /\ res2.p.size = FI(4) /\ res2.p.cx = FI(0) /\ res2.p.cy = FI(0)
          /\ res2.p.width = FI(1) /\ res2.p.length = FI(1)
          /\ res2.p.distance = FI(0)
    /\ (res1.status = "ok" /\ Valid /\ NVxy = 0) => Flagged1

\* psi is 0 or pi: pi/2 + atan2(y, 0) with y # 0
AlongX(psi) == psi.k = "ang" /\ psi.quarter = 1 /\ psi.x = FI(0)

\* C8: an image whose pixels all lie on the x-axis, with at least two
\* distinct x of positive intensity (vx2 > 0), has its centroid on the x-axis,
\* width = 0, length = sqrt(vx2) and psi = 0 or pi; so has the image (0,0):10,
\* (1,0):1, (2,0):1.
C8_Elongated ==
    (res2.status = "ok" /\ Valid /\ (\A i \in 1 .. Len(y) : y[i] = 0) /\ NVx2 > 0) =>
        /\ res2.p.cy = FI(0)
        /\ res2.p.width = FI(0)
        /\ Sq(res2.p.length) = FR(Rat(NVx2, N * N))
        /\ AlongX(res2.p.psi)

\* C10: each function ends in an AssertionError, with nothing returned,
\* exactly when the x array or the y array is not as long as the intensity
\* array.
C10_ShapeCheck ==
    /\ res1 # NotCalled => (res1 = Raised("AssertionError") <=> ~ShapesMatch)
    /\ res2 # NotCalled => (res2 = Raised("AssertionError") <=> ~ShapesMatch)
    /\ (res1 # NotCalled /\ ShapesMatch) => res1.status = "ok"
    /\ (res2 # NotCalled /\ ShapesMatch) => res2.status = "ok"

C10_Witness ==
    /\ Len(x) = Len(s) /\ Len(y) # Len(s)
    /\ res1 = Raised("AssertionError") /\ res2 = Raised("AssertionError")
    /\ res2.p = <<>>

====
